---- MODULE Spec2Model ----
\* A model of src/lib/signrank/signrank.ts (the Wilcoxon signed-rank engine and
\* the scalar noncentral-t routine _pnt that the same file carries) and of
\* src/lib/binomial/pbinom.ts.
\*
\* Numbers.  A JavaScript number is modelled as a tagged record:
\*   Num(v)     the finite real v / One (fixed point; One units make 1.0)
\*   Ln(v)      the finite real ln(v / One), for 0 < v < One (a log-probability)
\*   NaN, PosInf, NegInf, undefined
\* The unit is fine enough that every integer, every tenth, every dyadic
\* probability j / 2^n (n <= MaxN) and the two tolerances of the source
\* (1e-7 and 10 * DBL_EPSILON) are whole numbers of units, with
\* 10 * DBL_EPSILON < 1e-7 < the probability grid.
EXTENDS Integers, Sequences, FiniteSets, TLC

VARIABLES w, allocated_n, pc, scan, series, last

vars == <<w, allocated_n, pc, scan, series, last>>

\* ---------------------------------------------------------------- bounds
\* Largest sample size the callers pass.
MaxN == 4

\* Largest number of scan iterations of qsignrank that are followed.
MaxScan == 13

\* ---------------------------------------------------------------- numbers
RECURSIVE Pow2(_)
Pow2(e) == IF e <= 0 THEN 1 ELSE 2 * Pow2(e - 1)

\* 10 * DBL_EPSILON, in units.
TenEps == 1

\* errmax = 1e-12 of _pnt, in units.
errmax == 2

\* 1e-10, in units.
Prec == 3

\* 1e-7, in units.
Tol == 4

\* 1.0, in units.
One == 40 * Pow2(MaxN)

Num(v) == [tag |-> "num", v |-> v]
Ln(v) == [tag |-> "ln", v |-> v]
NaN == [tag |-> "NaN", v |-> 0]
PosInf == [tag |-> "+Inf", v |-> 0]
NegInf == [tag |-> "-Inf", v |-> 0]
undefined == [tag |-> "undefined", v |-> 0]

Int2Num(i) == Num(i * One)

ISNAN(a) == a.tag = "NaN"

R_FINITE(a) == a.tag \in {"num", "ln"}

\* JavaScript a + b on table entries: undefined converts to NaN.
JsAdd(a, b) ==
    IF a.tag = "num" /\ b.tag = "num" THEN Num(a.v + b.v) ELSE NaN

\* JavaScript a * f for a finite factor f given in units.
JsMul(a, f) ==
    IF a.tag = "num" THEN Num((a.v * f) \div One) ELSE NaN

\* Round to the nearest integer (no tie is ever passed).
R_forceint(a) ==
    IF a.tag = "num" THEN Num(((a.v + One \div 2) \div One) * One) ELSE a

\* Math.trunc: toward zero.
trunc(a) ==
    IF a.tag # "num" THEN a
    ELSE IF a.v >= 0 THEN Num((a.v \div One) * One)
    ELSE Num(-(((-a.v) \div One) * One))

\* Math.floor.
floor(a) == IF a.tag = "num" THEN Num((a.v \div One) * One) ELSE a

imin2(a, b) == IF a < b THEN a ELSE b

\* n (n + 1) / 2 for an integer n (always a whole number).
Tri(n) == (n * (n + 1)) \div 2

\* ---------------------------------------------------------------- the table
MaxIdx == Tri(MaxN + 1) \div 2

NoTable == [alloc |-> FALSE, len |-> 0, slot |-> [i \in 0..MaxIdx |-> undefined]]

\* new Array<number>(len): len empty slots.
NewArray(len) == [alloc |-> TRUE, len |-> len, slot |-> [i \in 0..MaxIdx |-> undefined]]

\* w[i] = v; an assignment past the end grows the array.
Store(t, i, v) ==
    [t EXCEPT !.slot[i] = v, !.len = IF i + 1 > t.len THEN i + 1 ELSE t.len]

\* w_init_maybe(n) for a number n.  u and c are plain (floating) quotients: c is
\* a whole number only when u is even, and new Array(c + 1) raises RangeError
\* for a length that is not a non-negative integer.  Nothing is assigned when
\* the allocation raises.
w_init_maybe(n, w0, a0) ==
    IF n.tag # "num" THEN [exc |-> "RangeError", w |-> w0, allocated_n |-> a0]
    ELSE LET u == Tri(n.v \div One)
         IN  IF u % 2 # 0
             THEN [exc |-> "RangeError", w |-> w0, allocated_n |-> a0]
             ELSE [exc |-> "none", w |-> NewArray(u \div 2 + 1), allocated_n |-> n]

\* The inner loop of csignrank: for (i = end; i >= j; --i) w[i] += w[i - j].
RECURSIVE BuildInner(_, _, _)
BuildInner(t, i, j) ==
    IF i < j THEN t
    ELSE BuildInner(Store(t, i, JsAdd(t.slot[i], t.slot[i - j])), i - 1, j)

\* The outer loop: for (j = 2; j < n + 1; ++j), end = imin2(j (j + 1) / 2, c).
\* c = u / 2 is passed as u; imin2 works on integers, so c counts as u \div 2.
RECURSIVE BuildOuter(_, _, _, _)
BuildOuter(t, j, n, u) ==
    IF ~(j < n + 1) THEN t
    ELSE BuildOuter(BuildInner(t, imin2(Tri(j), u \div 2), j), j + 1, n, u)

\* csignrank(k, n) on table t, for integers k and n.
csignrank(k, n, t) ==
    LET u == Tri(n)
        kk == IF 2 * k > u THEN u - k ELSE k
    IN  IF k < 0 \/ k > u THEN [exc |-> "none", ret |-> Int2Num(0), w |-> t]
        ELSE IF n = 1 THEN [exc |-> "none", ret |-> Int2Num(1), w |-> t]
        ELSE IF ~t.alloc THEN [exc |-> "TypeError", ret |-> undefined, w |-> t]
        ELSE IF t.slot[0] = Int2Num(1)
             THEN [exc |-> "none", ret |-> t.slot[kk], w |-> t]
        ELSE LET b == BuildOuter(Store(Store(t, 1, Int2Num(1)), 0, Int2Num(1)), 2, n, u)
             IN  [exc |-> "none", ret |-> b.slot[kk], w |-> b]

\* ---------------------------------------------------------------- helpers
\* The tail / log-scale helpers of the numeric utility layer.
\* ln(v / One): -Infinity at 0, exactly 0 at 1, NaN below 0.
Log(a) ==
    IF a.tag # "num" \/ a.v < 0 THEN NaN
    ELSE IF a.v = 0 THEN NegInf
    ELSE IF a.v = One THEN Num(0)
    ELSE Ln(a.v)

\* exp(a), for the arguments the callers pass: 0 and log-probabilities.
Exp(a) ==
    IF a.tag = "ln" THEN Num(a.v)
    ELSE IF a.tag = "-Inf" THEN Num(0)
    ELSE IF a = Num(0) THEN Num(One)
    ELSE NaN

\* 0.5 - a + 0.5
Compl(a) == IF a.tag = "num" THEN Num(One - a.v) ELSE NaN

R_D__0(log_p) == IF log_p THEN NegInf ELSE Num(0)

R_D__1(log_p) == IF log_p THEN Num(0) ELSE Num(One)

R_DT_0(lower_tail, log_p) == IF lower_tail THEN R_D__0(log_p) ELSE R_D__1(log_p)

R_DT_1(lower_tail, log_p) == IF lower_tail THEN R_D__1(log_p) ELSE R_D__0(log_p)

\* R_DT_val: p, its complement, or the log of either.
R_DT_val(lower_tail, log_p, p) ==
    LET q == IF lower_tail THEN p ELSE Compl(p)
    IN  IF log_p THEN Log(q) ELSE q

\* R_DT_qIv: a probability given on the (tail, log) scale, as a lower-tail
\* linear-scale probability.
R_DT_qIv(lower_tail, log_p, x) ==
    LET e == IF log_p THEN Exp(x) ELSE x
    IN  IF lower_tail THEN e ELSE Compl(e)

\* The sign of a finite number: ln(v / One) is negative below One.
IsNeg(a) == (a.tag = "num" /\ a.v < 0) \/ (a.tag = "ln" /\ a.v < One)

IsPos(a) == (a.tag = "num" /\ a.v > 0) \/ (a.tag = "ln" /\ a.v > One)

\* R_Q_P01_check: TRUE when x is no probability on its scale (the caller then
\* returns NaN).
R_Q_P01_check(log_p, x) ==
    IF log_p THEN IsPos(x) ELSE (IsNeg(x) \/ (x.tag = "num" /\ x.v > One))

\* exp(-n * M_LN2) = 2^-n, in units.
TwoToMinus(n) == IF n >= 0 THEN One \div Pow2(n) ELSE One * Pow2(-n)

\* ---------------------------------------------------------------- d, p, r
Outcome(exc, ret, t, a) == [exc |-> exc, ret |-> ret, w |-> t, allocated_n |-> a]

\* dsignrank(x, n, give_log) for x finite or NaN, n finite, +Infinity or NaN.
dsignrank(x, n, give_log, w0, a0) ==
    IF ISNAN(x) \/ ISNAN(n) THEN Outcome("none", NaN, w0, a0)
    ELSE LET n1 == R_forceint(n)
             x1 == R_forceint(x)
             ni == n1.v \div One
             xi == x1.v \div One
             d == x.v - x1.v
         IN  IF n1.tag = "num" /\ n1.v <= 0 THEN Outcome("none", NaN, w0, a0)
             ELSE IF (IF d < 0 THEN -d ELSE d) > Tol
                  THEN Outcome("none", R_D__0(give_log), w0, a0)
             ELSE IF xi < 0 \/ (n1.tag = "num" /\ xi > Tri(ni))
                  THEN Outcome("none", R_D__0(give_log), w0, a0)
             ELSE LET a == w_init_maybe(trunc(n1), w0, a0)
                  IN  IF a.exc # "none"
                      THEN Outcome(a.exc, undefined, a.w, a.allocated_n)
                      ELSE LET r == csignrank(xi, ni, a.w)
                               m == JsMul(r.ret, TwoToMinus(ni))
                           IN  Outcome(r.exc, IF give_log THEN Log(m) ELSE m,
                                       r.w, a.allocated_n)

\* for (i = lo; i < hi; i++) p += csignrank(i, nn) * f, on table t.
RECURSIVE SumCs(_, _, _, _, _, _)
SumCs(t, i, hi, nn, f, p) ==
    IF ~(i < hi) THEN [p |-> p, w |-> t]
    ELSE LET r == csignrank(i, nn, t)
         IN  SumCs(r.w, i + 1, hi, nn, f, JsAdd(p, JsMul(r.ret, f)))

\* psignrank(x, n, lower_tail, log_p) for x finite or NaN, n finite, +Infinity
\* or NaN.  The two statements "ML_ERR_return_NAN;" (lines 154 and 156) name the
\* helper without calling it or returning: they do nothing.
psignrank(x, n, lower_tail, log_p, w0, a0) ==
    IF ISNAN(x) \/ ISNAN(n) THEN Outcome("none", NaN, w0, a0)
    ELSE LET n1 == R_forceint(n)
             x1 == R_forceint(Num(x.v + Tol))
             ni == n1.v \div One
             xi == x1.v \div One
             u == Tri(ni)
         IN  IF x1.v < 0 THEN Outcome("none", R_DT_0(lower_tail, log_p), w0, a0)
             ELSE IF n1.tag = "num" /\ xi >= u
                  THEN Outcome("none", R_DT_1(lower_tail, log_p), w0, a0)
             ELSE LET a == w_init_maybe(trunc(n1), w0, a0)
                  IN  IF a.exc # "none"
                      THEN Outcome(a.exc, undefined, a.w, a.allocated_n)
                      ELSE LET f == TwoToMinus(ni)
                               low == 2 * xi <= u
                               s == IF low THEN SumCs(a.w, 0, xi + 1, ni, f, Num(0))
                                    ELSE SumCs(a.w, 0, u - xi, ni, f, Num(0))
                           IN  Outcome("none",
                                       R_DT_val(IF low THEN lower_tail ELSE ~lower_tail,
                                                log_p, s.p),
                                       s.w, a.allocated_n)

RECURSIVE SetSum(_)
SetSum(S) == IF S = {} THEN 0 ELSE LET e == CHOOSE e \in S : TRUE IN e + SetSum(S \ {e})

\* rsignrank(n) for n finite or NaN; S is the set of ranks i whose draw
\* floor(unif_rand() + 0.5) came out 1.  "ML_ERR_return_NAN;" (line 248) does
\* nothing.
rsignrank(n, S) ==
    IF ISNAN(n) THEN n
    ELSE LET n1 == R_forceint(n)
             k == floor(n1).v \div One
         IN  IF n1 = Num(0) THEN Num(0)
             ELSE Int2Num(SetSum(S \cap (1..k)))

\* ---------------------------------------------------------------- q
\* qsignrank(x, n, lower_tail, log_p) up to the entry of its scan loop.
\* "ML_ERR_return_NAN;" (line 201) does nothing.  kind is "ret" (returned
\* before the scan), "exc" (raised), or the loop entered: "scan_lo" (line 218)
\* or "scan_hi" (line 227), with the loop's variables in scan.
qsignrank(x, n, lower_tail, log_p, w0, a0) ==
    LET early(v) == [kind |-> "ret", ret |-> v, w |-> w0, allocated_n |-> a0,
                     scan |-> [x |-> 0, n |-> 0, f |-> 0, p |-> Num(0), q |-> 0]]
    IN  IF ISNAN(x) \/ ISNAN(n) THEN early(NaN)
        ELSE IF ~R_FINITE(x) \/ ~R_FINITE(n) THEN early(NaN)
        ELSE IF R_Q_P01_check(log_p, x) THEN early(NaN)
        ELSE LET n1 == R_forceint(n)
                 ni == n1.v \div One
                 x2 == IF log_p \/ ~lower_tail THEN R_DT_qIv(lower_tail, log_p, x) ELSE x
                 a == w_init_maybe(trunc(n1), w0, a0)
                 low == 2 * x2.v <= One
             IN  IF x = R_DT_0(lower_tail, log_p) THEN early(Int2Num(0))
                 ELSE IF x = R_DT_1(lower_tail, log_p) THEN early(Int2Num(Tri(ni)))
                 ELSE [kind |-> IF a.exc # "none" THEN "exc"
                                ELSE IF low THEN "scan_lo" ELSE "scan_hi",
                       ret |-> undefined, exc |-> a.exc, w |-> a.w,
                       allocated_n |-> a.allocated_n,
                       scan |-> [x |-> IF low THEN x2.v - TenEps ELSE One - x2.v + TenEps,
                                 n |-> ni, f |-> TwoToMinus(ni), p |-> Num(0), q |-> 0]]

\* One iteration of the scan loop (lines 218-223 or 227-234) on table t:
\* p += csignrank(q, nn) * f, then the stop test.  A comparison with NaN is
\* false.
ScanStep(mode, sc, t) ==
    LET r == csignrank(sc.q, sc.n, t)
        p1 == JsAdd(sc.p, JsMul(r.ret, sc.f))
        stop == IF mode = "scan_lo" THEN p1.tag = "num" /\ p1.v >= sc.x
                ELSE p1.tag = "num" /\ p1.v > sc.x
    IN  [exc |-> r.exc, w |-> r.w, stop |-> stop,
         ret |-> IF mode = "scan_lo" THEN Int2Num(sc.q)
                 ELSE trunc(Int2Num(Tri(sc.n) - sc.q)),
         scan |-> [sc EXCEPT !.p = p1, !.q = sc.q + 1]]

\* ---------------------------------------------------------------- calls
\* last records the call in progress or just returned: its arguments, the
\* value returned and the exception raised ("none" when it returned).  A scan
\* of qsignrank in progress has exc = "running".  chained marks a qsignrank
\* call whose x is the value psignrank(k, n, ...) had just returned.
NoCall ==
    [op |-> "none", x |-> undefined, n |-> undefined, lower_tail |-> FALSE,
     log_p |-> FALSE, ret |-> undefined, exc |-> "none", chained |-> FALSE,
     k |-> undefined, p |-> undefined, delegate |-> <<>>, diag |-> {}]

Call(op, x, n, lt, lg, ret, exc) ==
    [op |-> op, x |-> x, n |-> n, lower_tail |-> lt, log_p |-> lg,
     ret |-> ret, exc |-> exc, chained |-> FALSE, k |-> undefined,
     p |-> undefined, delegate |-> <<>>, diag |-> {}]

NoScan == [x |-> 0, n |-> 0, f |-> 0, p |-> Num(0), q |-> 0]

NoSeries ==
    [it |-> 0, s |-> 0, tnc |-> 0, errbd |-> 0, del |-> 0, negdel |-> FALSE,
     gotoFinis |-> FALSE, regime |-> "none"]

Tenths(t) == Num((t * One) \div 10)

\* The numbers passed as sample size.
NVals ==
    {NaN, PosInf, Tenths(-4), Tenths(27)} \cup {Int2Num(i) : i \in (-MaxN)..MaxN}

\* The numbers passed as the point x of dsignrank and psignrank.
XCounts ==
    {NaN, Tenths(27)} \cup {Int2Num(i) : i \in -1..(Tri(MaxN) + 1)}

\* The numbers passed as the probability x of qsignrank.
Grid == One \div Pow2(MaxN)

XProbs ==
    {NaN, NegInf} \cup {Num(j * Grid) : j \in -1..(Pow2(MaxN) + 1)}
        \cup {Ln(j * Grid) : j \in 1..(Pow2(MaxN) - 1)}

Init ==
    /\ w = NoTable
    /\ allocated_n = undefined
    /\ pc = "idle"
    /\ scan = NoScan
    /\ series = NoSeries
    /\ last = NoCall

Ready == pc = "idle" /\ last.op = "none"

\* A direct call of the exported w_init_maybe.
W_init_maybe(n) ==
    /\ Ready
    /\ LET r == w_init_maybe(Int2Num(n), w, allocated_n)
       IN  /\ w' = r.w
           /\ allocated_n' = r.allocated_n
           /\ last' = Call("w_init_maybe", undefined, Int2Num(n), FALSE, FALSE, undefined, r.exc)
    /\ UNCHANGED <<pc, scan, series>>

\* A direct call of the exported csignrank.
Csignrank(k, n) ==
    /\ Ready
    /\ LET r == csignrank(k, n, w)
       IN  /\ w' = r.w
           /\ last' = Call("csignrank", Int2Num(k), Int2Num(n), FALSE, FALSE, r.ret, r.exc)
    /\ UNCHANGED <<allocated_n, pc, scan, series>>

Dsignrank(x, n, give_log) ==
    /\ Ready
    /\ LET r == dsignrank(x, n, give_log, w, allocated_n)
       IN  /\ w' = r.w
           /\ allocated_n' = r.allocated_n
           /\ last' = Call("dsignrank", x, n, FALSE, give_log, r.ret, r.exc)
    /\ UNCHANGED <<pc, scan, series>>

Psignrank(x, n, lower_tail, log_p) ==
    /\ Ready
    /\ LET r == psignrank(x, n, lower_tail, log_p, w, allocated_n)
       IN  /\ w' = r.w
           /\ allocated_n' = r.allocated_n
           /\ last' = Call("psignrank", x, n, lower_tail, log_p, r.ret, r.exc)
    /\ UNCHANGED <<pc, scan, series>>

\* The entry of qsignrank on state (w, allocated_n).
QEnter(x, n, lower_tail, log_p, chained, k) ==
    LET r == qsignrank(x, n, lower_tail, log_p, w, allocated_n)
        c == [Call("qsignrank", x, n, lower_tail, log_p, r.ret, "none")
                 EXCEPT !.chained = chained, !.k = k]
    IN  /\ w' = r.w
        /\ allocated_n' = r.allocated_n
        /\ pc' = IF r.kind \in {"scan_lo", "scan_hi"} THEN r.kind ELSE "idle"
        /\ scan' = IF r.kind \in {"scan_lo", "scan_hi"} THEN r.scan ELSE NoScan
        /\ last' = [c EXCEPT !.exc = IF r.kind = "ret" THEN "none"
                                     ELSE IF r.kind = "exc" THEN r.exc
                                     ELSE "running"]

\* A call of qsignrank.  On the log scale x is 0, positive or a log-probability.
Qsignrank(x, n, lower_tail, log_p) ==
    /\ Ready
    /\ ~(log_p /\ x.tag = "num" /\ x.v < 0)
    /\ QEnter(x, n, lower_tail, log_p, FALSE, undefined)
    /\ UNCHANGED series

\* The round trip: qsignrank called on the value psignrank just returned, with
\* the same n and the same flags.
QsignrankOfP ==
    /\ pc = "idle"
    /\ last.op = "psignrank"
    /\ last.exc = "none"
    /\ QEnter(last.ret, last.n, last.lower_tail, last.log_p, TRUE, last.x)
    /\ UNCHANGED series

\* One iteration of the scan loop of the qsignrank call in progress.
QsignrankStep ==
    /\ pc \in {"scan_lo", "scan_hi"}
    /\ scan.q < MaxScan
    /\ LET r == ScanStep(pc, scan, w)
       IN  /\ w' = r.w
           /\ IF r.exc # "none"
              THEN /\ pc' = "idle"
                   /\ scan' = NoScan
                   /\ last' = [last EXCEPT !.exc = r.exc]
              ELSE IF r.stop
              THEN /\ pc' = "idle"
                   /\ scan' = NoScan
                   /\ last' = [last EXCEPT !.ret = r.ret, !.exc = "none"]
              ELSE /\ pc' = pc
                   /\ scan' = r.scan
                   /\ last' = last
    /\ UNCHANGED <<allocated_n, series>>

Rsignrank(n, S) ==
    /\ Ready
    /\ last' = Call("rsignrank", undefined, n, FALSE, FALSE, rsignrank(n, S), "none")
    /\ UNCHANGED <<w, allocated_n, pc, scan, series>>

\* The caller takes the result of the call that ended (returned or raised).
Return ==
    /\ pc = "idle"
    /\ last.op # "none"
    /\ last' = NoCall
    /\ UNCHANGED <<w, allocated_n, pc, scan, series>>

Next ==
    \/ Ready /\ \E n \in 1..MaxN : W_init_maybe(n)
    \/ Ready /\ \E n \in 1..MaxN, k \in -1..(Tri(MaxN) + 1) : Csignrank(k, n)
    \/ Ready /\ \E x \in XCounts, n \in NVals, g \in BOOLEAN : Dsignrank(x, n, g)
    \/ Ready /\ \E x \in XCounts, n \in NVals, lt \in BOOLEAN, lg \in BOOLEAN :
                   Psignrank(x, n, lt, lg)
    \/ Ready /\ \E x \in XProbs, n \in NVals, lt \in BOOLEAN, lg \in BOOLEAN :
                   Qsignrank(x, n, lt, lg)
    \/ QsignrankOfP
    \/ QsignrankStep
    \/ Ready /\ \E n \in NVals \ {PosInf}, S \in SUBSET (1..MaxN) : Rsignrank(n, S)
    \/ Return

Spec == Init /\ [][Next]_vars
\* ---------------------------------------------------------------- pbinom
\* The value a collaborator (pbeta, pt, pnorm) returns; its arguments are kept
\* in the call's delegate field.
Opaque(name) == [tag |-> name, v |-> 0]

Abs(i) == IF i < 0 THEN -i ELSE i

\* R_nonint(n): fabs(n - R_forceint(n)) > 1e-7 * fmax2(1, fabs(n)).
R_nonint(a) ==
    Abs(a.v - R_forceint(a).v) * One > Tol * (IF Abs(a.v) > One THEN Abs(a.v) ELSE One)

\* pbinom(x, n, p, lower_tail, log_p) for x finite or NaN and n, p finite,
\* +Infinity or NaN.  Line 50 returns the NaN of ML_ERR_return_NAN(); lines 55
\* and 59 only name ML_ERR_return_NAN, so a non-integer n is warned about and
\* then rounded, and n < 0, p < 0 and p > 1 pass.
pbinom(x, n, p, lower_tail, log_p) ==
    LET out(ret, delegate, diag) == [ret |-> ret, delegate |-> delegate, diag |-> diag]
    IN  IF ISNAN(x) \/ ISNAN(n) \/ ISNAN(p) THEN out(NaN, <<>>, {})
        ELSE IF ~R_FINITE(n) \/ ~R_FINITE(p) THEN out(NaN, <<>>, {})
        ELSE LET diag == IF R_nonint(n) THEN {"non-integer n"} ELSE {}
                 n1 == R_forceint(n)
                 x1 == floor(Num(x.v + Tol))
             IN  IF x.v < 0 THEN out(R_DT_0(lower_tail, log_p), <<>>, diag)
                 ELSE IF n1.v <= x1.v THEN out(R_DT_1(lower_tail, log_p), <<>>, diag)
                 ELSE out(Opaque("pbeta"),
                          <<"pbeta", p, Num(x1.v + One), Num(n1.v - x1.v),
                            ~lower_tail, log_p>>,
                          diag)

XBinom == {NaN, Int2Num(-1), Int2Num(0), Tenths(17), Int2Num(2), Int2Num(5)}

NBinom == {NaN, PosInf, Int2Num(-1), Int2Num(0), Tenths(23), Int2Num(3)}

PBinom == {NaN, PosInf, Tenths(-5), Int2Num(0), Tenths(5), Int2Num(1), Tenths(15)}

Pbinom(x, n, p, lower_tail, log_p) ==
    /\ Ready
    /\ LET r == pbinom(x, n, p, lower_tail, log_p)
       IN  last' = [Call("pbinom", x, n, lower_tail, log_p, r.ret, "none")
                       EXCEPT !.p = p, !.delegate = r.delegate, !.diag = r.diag]
    /\ UNCHANGED <<w, allocated_n, pc, scan, series>>

NextPbinom ==
    \/ Ready /\ \E x \in XBinom, n \in NBinom, p \in PBinom,
                   lt \in BOOLEAN, lg \in BOOLEAN : Pbinom(x, n, p, lt, lg)
    \/ Return

SpecPbinom == Init /\ [][NextPbinom]_vars

\* ---------------------------------------------------------------- pnt
\* _pnt(t, df, ncp, lower_tail, log_p) for t an integer or infinite and df, ncp
\* integers.  The regime tests are computed as the source computes them.  The
\* real arithmetic of the twin series (exp, pow, lgammafn, pbeta) is not
\* computed: each quantity the control flow reads is drawn from the values it
\* can take: s only decreases (s -= p with p >= 0), the running total tnc
\* gains a non-negative term, and errbd is any small or large number.
itrmax == 1000

\* M_LN2, in millionths.
M_LN2 == 693147

DBL_MIN_EXP == -1021

\* del * del at and above which 0.5 * exp(-0.5 * del * del) is 0 (del >= 38.604).
UnderflowAt == 1491

\* The values of s that are followed: below -1e-10, -1e-10, just below 0, 0
\* and 0.25.
SVals == {-(Prec + 1), -Prec, -1, 0, One \div 4}

\* What an iteration adds to tnc, kept at or below 1 inside the loop.
TncGains(tnc) == IF tnc >= One THEN {0} ELSE {0, One \div 2}

\* The values of errbd that are followed.
ErrVals == {-Grid, -1, 1}

\* pnorm(-del, 0, 1, true, false): below one half exactly when del > 0.
PnormNeg(del) == IF del > 0 THEN One \div 4 ELSE IF del < 0 THEN 3 * (One \div 4) ELSE One \div 2

\* Line 331: fmin2 is Math.min.
fmin2(a, b) == IF a < b THEN a ELSE b

\* Lines 547-573: the steps after the label finis, from the loop's tnc.
Finis(tnc, del, negdel, lower_tail, log_p, diag) ==
    LET tnc1 == tnc + PnormNeg(del)
        lt1 == lower_tail # negdel
    IN  [tnc |-> tnc1,
         diag |-> IF tnc1 > One - Prec /\ lt1 THEN diag \cup {"ME_PRECISION{final}"} ELSE diag,
         ret |-> R_DT_val(lt1, log_p, Num(fmin2(tnc1, One)))]

\* The test of line 398 with the two flags exchanged for a conjunction.
ExtremeLeftTailBothFlags(neg, ncp, lower_tail, log_p) ==
    neg /\ ncp > 40 /\ (~log_p /\ ~lower_tail)

\* Line 398: the left tail is dealt with at once when it is extreme.
ExtremeLeftTail(neg, ncp, lower_tail, log_p) ==
    neg /\ ncp > 40 /\ (~log_p \/ ~lower_tail)

\* Lines 378-431: the regime _pnt takes, before the twin series.
Regime(t, df, ncp, lower_tail, log_p) ==
    LET neg == t.tag = "-Inf" \/ (t.tag = "num" /\ t.v < 0)
        del == IF neg THEN -ncp ELSE ncp
    IN  IF df <= 0 THEN "nan"
        ELSE IF ncp = 0 THEN "pt"
        ELSE IF ~R_FINITE(t) THEN "boundary"
        ELSE IF ExtremeLeftTail(neg, ncp, lower_tail, log_p) THEN "shortcut"
        ELSE IF df > 400000 \/ del * del * 1000000 > 2 * M_LN2 * (-DBL_MIN_EXP)
             THEN "asymptotic"
        ELSE IF t.v = 0 THEN "finis"
        ELSE IF del * del >= UnderflowAt THEN "underflow"
        ELSE "series"

TVals == {NegInf, Int2Num(-2), Int2Num(0), Int2Num(1), PosInf}

DfVals == {-1, 0, 1, 400001}

NcpVals == {-41, 0, 1, 38, 41}

\* A call of _pnt up to the entry of the loop of line 497; s0 and tnc0 are the
\* values of s and tnc the initialisation (lines 455-492) computes.
Pnt(t, df, ncp, lower_tail, log_p, s0, tnc0) ==
    /\ Ready
    /\ LET r == Regime(t, df, ncp, lower_tail, log_p)
           negdel == t.tag = "num" /\ t.v < 0
           del == IF negdel THEN -ncp ELSE ncp
           c == [Call("pnt", t, Int2Num(df), lower_tail, log_p, undefined, "none")
                    EXCEPT !.p = Int2Num(ncp)]
           f == Finis(0, del, negdel, lower_tail, log_p, {})
           fr == [NoSeries EXCEPT !.regime = r, !.del = del, !.negdel = negdel]
       IN  /\ pc' = IF r = "series" THEN "series" ELSE "idle"
           /\ series' =
                 IF r = "series" THEN [fr EXCEPT !.s = s0, !.tnc = tnc0]
                 ELSE IF r = "finis" THEN [fr EXCEPT !.tnc = f.tnc]
                 ELSE fr
           /\ last' =
                 CASE r = "nan" -> [c EXCEPT !.ret = NaN, !.diag = {"ME_DOMAIN"}]
                   [] r = "pt" ->
                        [c EXCEPT !.ret = Opaque("pt"),
                                  !.delegate = <<"pt", t, df, lower_tail, log_p>>]
                   [] r = "boundary" ->
                        [c EXCEPT !.ret = IF t.tag = "-Inf" THEN R_DT_0(lower_tail, log_p)
                                          ELSE R_DT_1(lower_tail, log_p)]
                   [] r = "shortcut" -> [c EXCEPT !.ret = R_DT_0(lower_tail, log_p)]
                   [] r = "asymptotic" ->
                        [c EXCEPT !.ret = Opaque("pnorm"),
                                  !.delegate = <<"pnorm", del, lower_tail # negdel, log_p>>]
                   [] r = "underflow" ->
                        [c EXCEPT !.ret = R_DT_0(lower_tail, log_p),
                                  !.diag = {"ME_UNDERFLOW", "ME_RANGE"}]
                   [] r = "finis" -> [c EXCEPT !.ret = f.ret, !.diag = f.diag]
                   [] OTHER -> [c EXCEPT !.exc = "running"]
    /\ UNCHANGED <<w, allocated_n, scan>>

\* The stop tests with s <= 0 tested before s < -1e-10.
StopTestsZeroFirst(s1, e, errbd0) ==
    IF s1 <= 0 THEN [gotoFinis |-> TRUE, diag |-> {}, errbd |-> errbd0]
    ELSE IF s1 < -Prec
         THEN [gotoFinis |-> TRUE, diag |-> {"ME_PRECISION"}, errbd |-> errbd0]
    ELSE [gotoFinis |-> Abs(e) < errmax, diag |-> {}, errbd |-> e]

\* Lines 509-540: the stop tests of an iteration, in the order of the source;
\* errbd is assigned (line 521) only when the two tests of s have failed.
StopTests(s1, e, errbd0) ==
    IF s1 < -Prec
    THEN [gotoFinis |-> TRUE, diag |-> {"ME_PRECISION"}, errbd |-> errbd0]
    ELSE IF s1 <= 0 THEN [gotoFinis |-> TRUE, diag |-> {}, errbd |-> errbd0]
    ELSE [gotoFinis |-> Abs(e) < errmax, diag |-> {}, errbd |-> e]

\* One iteration of the loop of lines 497-541: s1, g and e are the new s, the
\* term added to tnc and the errbd this iteration computes.  An iteration that
\* ends the loop (a break, or the 1000th iteration) runs on through lines
\* 543-573 to the return.
PntIter(s1, g, e) ==
    /\ pc = "series"
    /\ s1 <= series.s
    /\ g \in TncGains(series.tnc)
    /\ LET it == series.it + 1
           tnc1 == series.tnc + g
           st == StopTests(s1, e, series.errbd)
           gotoFinis == st.gotoFinis
           errbd == st.errbd
           d2 == IF ~gotoFinis THEN st.diag \cup {"ME_NOCONV"} ELSE st.diag
           f == Finis(tnc1, series.del, series.negdel, last.lower_tail, last.log_p, d2)
           fr == [series EXCEPT !.it = it, !.s = s1, !.errbd = errbd,
                                !.gotoFinis = gotoFinis]
       IN  IF ~gotoFinis /\ it < itrmax
           THEN /\ pc' = "series"
                /\ series' = [fr EXCEPT !.tnc = tnc1]
                /\ last' = last
           ELSE /\ pc' = "idle"
                /\ series' = [fr EXCEPT !.tnc = f.tnc]
                /\ last' = [last EXCEPT !.ret = f.ret, !.exc = "none", !.diag = f.diag]
    /\ UNCHANGED <<w, allocated_n, scan>>

\* The caller takes the result of _pnt.
PntReturn ==
    /\ pc = "idle"
    /\ last.op = "pnt"
    /\ last' = NoCall
    /\ series' = NoSeries
    /\ UNCHANGED <<w, allocated_n, pc, scan>>

NextPnt ==
    \/ Ready /\ \E t \in TVals, df \in DfVals, ncp \in NcpVals,
                   lt \in BOOLEAN, lg \in BOOLEAN,
                   s0 \in {v \in SVals : v > 0}, tnc0 \in {0, One \div 2} :
                   Pnt(t, df, ncp, lt, lg, s0, tnc0)
    \/ \E s1 \in SVals, g \in {0, One \div 2}, e \in ErrVals : PntIter(s1, g, e)
    \/ PntReturn

SpecPnt == Init /\ [][NextPnt]_vars

\* ---------------------------------------------------------------- claims
\* The sample sizes and points the claims speak of.
IsWhole(a) == a.tag = "num" /\ a.v % One = 0

ValidN(a) == IsWhole(a) /\ a.v >= One

IntOf(a) == a.v \div One

\* The number of subsets of {1, ..., n} whose elements sum to k.
SubsetCount(k, n) == Cardinality({S \in SUBSET (1..n) : SetSum(S) = k})

\* What csignrank(k, n) leaves and returns on a table freshly allocated for n.
FreshBuild(k, n) == csignrank(k, n, NewArray(Tri(n) \div 2 + 1))

\* C1: once w_init_maybe(n) has been called for an integer n >= 1,
\* csignrank(k, n) returns the number of subsets of {1..n} that sum to k (0 for
\* k outside [0, n(n+1)/2]).
C1_CsignrankCountsSubsets ==
    (last.op = "csignrank" /\ allocated_n = last.n /\ ValidN(last.n)) =>
        /\ last.exc = "none"
        /\ last.ret = Int2Num(SubsetCount(IntOf(last.x), IntOf(last.n)))

\* C2: for every integer n >= 1, w_init_maybe(n) returns without raising and
\* leaves a table of floor(u/2) + 1 slots with allocated_n = n; so dsignrank,
\* psignrank and qsignrank raise no exception for such n.
C2_InitNeverRaises ==
    /\ (last.op = "w_init_maybe" /\ ValidN(last.n)) =>
          /\ last.exc = "none"
          /\ w.alloc
          /\ w.len = Tri(IntOf(last.n)) \div 2 + 1
          /\ allocated_n = last.n
    /\ (last.op \in {"dsignrank", "psignrank", "qsignrank"} /\ ValidN(last.n)) =>
          last.exc \in {"none", "running"}

\* C3: a call whose n equals allocated_n of a built table leaves w and
\* allocated_n unchanged, and a call of w_init_maybe with another n that
\* returns replaces the table.
C3_RebuildOnlyOnChange ==
    [][(/\ last.op = "none"
        /\ last'.op \in {"w_init_maybe", "dsignrank", "psignrank", "qsignrank"}
        /\ w.alloc
        /\ w.slot[0] = Int2Num(1))
       => IF last'.n = allocated_n
          THEN w' = w /\ allocated_n' = allocated_n
          ELSE (last'.op = "w_init_maybe" /\ last'.exc = "none")
                  => (allocated_n' = last'.n /\ w'.slot[0] # Int2Num(1))]_vars

\* C4: for a non-NaN x, psignrank returns NaN when n is not finite or rounds
\* to an integer <= 0, and rsignrank(n) returns NaN when n rounds to an
\* integer < 0.
C4_InvalidNRejected ==
    /\ (/\ last.op = "psignrank"
        /\ ~ISNAN(last.x)
        /\ (~R_FINITE(last.n) \/ R_forceint(last.n).v <= 0))
          => (last.exc = "none" /\ last.ret = NaN)
    /\ (last.op = "rsignrank" /\ R_FINITE(last.n) /\ R_forceint(last.n).v < 0)
          => last.ret = NaN

\* C6: for every integer n >= 1 and integer k in [0, n(n+1)/2],
\* qsignrank(psignrank(k, n, true, false), n, true, false) returns k.
C6_RoundTrip ==
    (/\ pc = "idle"
     /\ last.op = "qsignrank"
     /\ last.chained
     /\ last.lower_tail
     /\ ~last.log_p
     /\ ValidN(last.n)
     /\ IsWhole(last.k)
     /\ last.k.v >= 0
     /\ IntOf(last.k) <= Tri(IntOf(last.n)))
        => (last.exc = "none" /\ last.ret = last.k)

\* C7: for every integer n >= 1 and probability x strictly between 0 and 1
\* (lower_tail, not log_p), the scan loop of qsignrank exits after at most
\* n(n+1)/2 + 1 iterations, and the value returned is an integer in
\* [0, n(n+1)/2].
C7_ScanTerminates ==
    (/\ last.op = "qsignrank"
     /\ last.lower_tail
     /\ ~last.log_p
     /\ ValidN(last.n)
     /\ last.x.tag = "num"
     /\ last.x.v > 0
     /\ last.x.v < One)
        => /\ pc \in {"scan_lo", "scan_hi"} => scan.q <= Tri(IntOf(last.n))
           /\ (pc = "idle" /\ last.exc = "none") =>
                 /\ IsWhole(last.ret)
                 /\ last.ret.v >= 0
                 /\ IntOf(last.ret) <= Tri(IntOf(last.n))

\* C8: csignrank(k, n) never answers from a table built for another sample
\* size: the value it returns is the one the build for n gives, and the table
\* it leaves is the table built for n.
C8_NoStaleAnswer ==
    (/\ last.op = "csignrank"
     /\ last.exc = "none"
     /\ IntOf(last.n) >= 2
     /\ last.x.v >= 0
     /\ IntOf(last.x) <= Tri(IntOf(last.n)))
        => /\ last.ret = FreshBuild(IntOf(last.x), IntOf(last.n)).ret
           /\ w.slot = FreshBuild(IntOf(last.x), IntOf(last.n)).w.slot

\* C5: with no NaN input, pbinom returns NaN (no boundary value, no call of
\* pbeta) when n or p is not finite, n is no integer, n < 0 or p is outside
\* [0, 1]; for valid n and p it returns the boundary for x < 0 or
\* floor(x + 1e-7) >= n, and pbeta(p, x + 1, n - x, !lower_tail, log_p)
\* otherwise.
C5_PbinomRejectsInvalid ==
    (last.op = "pbinom" /\ ~ISNAN(last.x) /\ ~ISNAN(last.n) /\ ~ISNAN(last.p)) =>
        LET x1 == floor(Num(last.x.v + Tol))
        IN  IF \/ ~R_FINITE(last.n)
               \/ ~R_FINITE(last.p)
               \/ ~IsWhole(last.n)
               \/ last.n.v < 0
               \/ last.p.v < 0
               \/ last.p.v > One
            THEN last.ret = NaN /\ last.delegate = <<>>
            ELSE IF last.x.v < 0
                 THEN last.ret = R_DT_0(last.lower_tail, last.log_p)
            ELSE IF x1.v >= last.n.v
                 THEN last.ret = R_DT_1(last.lower_tail, last.log_p)
            ELSE last.delegate =
                    <<"pbeta", last.p, Num(x1.v + One), Num(last.n.v - x1.v),
                      ~last.lower_tail, last.log_p>>

\* A call of _pnt with df > 0, ncp # 0 and a finite t.
PntDispatched ==
    /\ last.op = "pnt"
    /\ last.n.v > 0
    /\ last.p # Int2Num(0)
    /\ R_FINITE(last.x)

\* C9 as stated: the extreme-tail shortcut is taken exactly when t < 0,
\* ncp > 40 and the request is not lower_tail = true with log_p = false; such
\* a request goes on to the asymptotic or the series regime.
C9_ShortcutUnlessLowerLinear ==
    PntDispatched =>
        /\ series.regime = "shortcut" <=>
              (last.x.v < 0 /\ IntOf(last.p) > 40 /\ ~(last.lower_tail /\ ~last.log_p))
        /\ (last.x.v < 0 /\ IntOf(last.p) > 40 /\ last.lower_tail /\ ~last.log_p) =>
              series.regime \in {"asymptotic", "series"}

\* C9 amended: the extreme-tail shortcut (the 0-probability boundary returned
\* at once) is taken exactly when t < 0, ncp > 40 and the request is not
\* lower_tail = true with log_p = true; a lower-tail log-scale request with
\* t < 0 and ncp > 40 goes on to the asymptotic or the series regime.
C9_ShortcutUnlessLowerLog ==
    PntDispatched =>
        /\ series.regime = "shortcut" <=>
              (last.x.v < 0 /\ IntOf(last.p) > 40 /\ ~(last.lower_tail /\ last.log_p))
        /\ series.regime = "shortcut" =>
              (pc = "idle" /\ last.ret = R_DT_0(last.lower_tail, last.log_p))
        /\ (last.x.v < 0 /\ IntOf(last.p) > 40 /\ last.lower_tail /\ last.log_p) =>
              series.regime \in {"asymptotic", "series"}

\* A lower-tail linear-scale request with t < 0 and ncp > 40 took the shortcut.
C9_Witness ==
    /\ PntDispatched
    /\ series.regime = "shortcut"
    /\ last.lower_tail
    /\ ~last.log_p
    /\ last.ret = Int2Num(0)

\* C10: the series loop runs at most 1000 iterations; an iteration stops the
\* loop with a precision error when s < -1e-10, else without one when s <= 0,
\* else when |errbd| < 1e-12; a non-convergence error is reported exactly when
\* the 1000th iteration ends with no stop condition met; in each case the call
\* returns the tail / log transform of min(tnc, 1) and raises nothing.
C10_SeriesLoop ==
    (last.op = "pnt" /\ series.regime = "series") =>
        LET met == series.s < -Prec \/ series.s <= 0 \/ Abs(series.errbd) < errmax
        IN  /\ series.it <= itrmax
            /\ pc = "series" =>
                  /\ series.it < itrmax
                  /\ series.s > 0
                  /\ series.it > 0 => ~met
                  /\ last.diag = {}
            /\ pc = "idle" =>
                  /\ series.it >= 1
                  /\ series.it < itrmax => met
                  /\ "ME_PRECISION" \in last.diag <=> series.s < -Prec
                  /\ "ME_NOCONV" \in last.diag <=> (series.it = itrmax /\ ~met)
                  /\ last.exc = "none"
                  /\ last.ret = R_DT_val(last.lower_tail # series.negdel, last.log_p,
                                         Num(fmin2(series.tnc, One)))

\* All 1000 iterations ran with no stop condition met: the non-convergence
\* error was reported and a value returned.
C10_Witness ==
    /\ last.op = "pnt"
    /\ series.regime = "series"
    /\ pc = "idle"
    /\ series.it = itrmax
    /\ "ME_NOCONV" \in last.diag
    /\ last.exc = "none"
    /\ R_FINITE(last.ret)

====
